---- MODULE Spec2Model ----
(***************************************************************************)
(* Model of bing-dict-pro: the retrying fetcher fetch_word, the            *)
(* incremental JSON array writer append_json_object_to_array and the       *)
(* orchestrator batch_fetch_dictionary_multithread of batch.py, with the   *)
(* failure messages of fetch_bing_dictionary of bing.py.                   *)
(***************************************************************************)
EXTENDS Integers, Sequences, FiniteSets, TLC

\* ------------------------------------------------------------------ bounds
NThreads == 2
MaxAppends == 3
MaxFaults == 1
MaxWords == 2
MaxWorkers == 2
MaxRetriesArg == 3
MaxDelayArg == 2
MaxRuns == 2
MaxLines == 2

\* ------------------------------------------------------------------ defaults
\* def fetch_word(word, max_retries=5, initial_delay=1)
DefaultMaxRetries == 5
DefaultInitialDelay == 1

\* ------------------------------------------------------------------ values
\* The words of the model; the second one holds the text 'definitions'.
Words == {"king", "definitions"}

\* The data of an obj: None, or a record (1).
None == 0

\* The object fetch_word returns: {word: data}.
Obj(w, d) == [word |-> w, data |-> d]

\* The objs the threads of the writer's own specification append.
AppendObjs == {Obj("king", 1), Obj("definitions", None)}

\* ------------------------------------------------------------------ the file
\* The file is a sequence of cells, one per unit the code writes; the file
\* size and the seek offsets count cells.
LB == <<"[", "", 0>>
RB == <<"]", "", 0>>
COMMA == <<",", "", 0>>
NL == <<"nl", "", 0>>
LC == <<"{", "", 0>>
RC == <<"}", "", 0>>
KeyCell(w) == <<"key", w, 0>>
ValCell(d) == <<"val", "", d>>

\* f.write('[]')
EmptyArray == <<LB, RB>>

\* What file holds when output_json_path does not exist.
Absent == <<<<"absent", "", 0>>>>

\* f.write(',\n')
Separator == <<COMMA, NL>>

\* json.dump(obj, f, ensure_ascii=False, indent=2), chunk by chunk.
Dump(obj) == <<LC, KeyCell(obj.word), ValCell(obj.data), RC>>

Max(a, b) == IF a >= b THEN a ELSE b

\* A write of s at offset pos of a file opened 'r+': it overwrites what is
\* there and extends the file past its end, and never truncates.
WriteAt(f, pos, s) ==
  [i \in 1..Max(Len(f), pos + Len(s)) |->
     IF i <= pos THEN f[i]
     ELSE IF i <= pos + Len(s) THEN s[i - pos]
     ELSE f[i]]

\* json.load of the file: whitespace between tokens is skipped, then
\* '[' (object (',' object)*)? ']' and nothing after it.
RECURSIVE StripWs(_)
StripWs(f) ==
  IF f = <<>> THEN <<>>
  ELSE IF Head(f) = NL THEN StripWs(Tail(f))
  ELSE <<Head(f)>> \o StripWs(Tail(f))

IsObjectAt(t, i) ==
  /\ i + 3 <= Len(t)
  /\ t[i] = LC
  /\ t[i + 1][1] = "key"
  /\ t[i + 2][1] = "val"
  /\ t[i + 3] = RC

Invalid == [ok |-> FALSE, elems |-> <<>>]

RECURSIVE ParseElems(_, _, _)
ParseElems(t, i, acc) ==
  IF ~IsObjectAt(t, i) THEN Invalid
  ELSE LET acc2 == Append(acc, Obj(t[i + 1][2], t[i + 2][3]))
           j == i + 4
       IN IF j > Len(t) THEN Invalid
          ELSE IF t[j] = RB THEN
                 IF j = Len(t) THEN [ok |-> TRUE, elems |-> acc2] ELSE Invalid
          ELSE IF t[j] = COMMA THEN ParseElems(t, j + 1, acc2)
          ELSE Invalid

ParseArray(f) ==
  LET t == StripWs(f)
  IN IF Len(t) < 2 \/ t[1] # LB THEN Invalid
     ELSE IF t[2] = RB THEN
            IF Len(t) = 2 THEN [ok |-> TRUE, elems |-> <<>>] ELSE Invalid
     ELSE ParseElems(t, 2, <<>>)

\* ------------------------------------------------------------------ state
Main == 0
Appenders == 1..NThreads
Threads == {Main} \cup Appenders

VARIABLES
  file,        \* the cells of the output file
  lock,        \* threading.Lock: 0 when free, else 1 + the holder's thread id
  apc,         \* per thread: where it is in append_json_object_to_array
  aobj,        \* per thread: the obj argument of its call
  filesize,    \* per thread: the local filesize
  fpos,        \* per thread: the offset of its file handle
  appended,    \* history: the objs of the calls that returned without error
  dropped,     \* history: the objs of the calls that caught an error
  outcome,     \* history, per thread: how its last call ended
  faults,      \* how many I/O errors the environment has raised
  started      \* how many append calls have been made

avars == <<file, lock, apc, aobj, filesize, fpos, appended, dropped, outcome, faults, started>>

\* The pool's tasks, one per word of the run; task 0 is a direct call of
\* fetch_word, outside any pool.
Tasks == 1..MaxWords
Direct == 0
Calls == {Direct} \cup Tasks

VARIABLES
  max_retries,   \* the max_retries argument of the fetch_word calls
  initial_delay, \* the initial_delay argument of the fetch_word calls
  lines,         \* the lines of the input file, without their line ends
  nread,         \* how many lines read_words_from_txt has read
  words          \* the words of the run

pvars == <<max_retries, initial_delay, lines, nread, words>>

VARIABLES
  word,          \* per call: the word argument
  tpc,           \* per call: where it is in fetch_word
  retries,       \* per call: the local retries
  result,        \* per call: what fetch_word returned (the future's result)
  hist,          \* history of the direct call: what the fetcher did, the sleeps
  completed,     \* history: the tasks in the order they completed
  waiter         \* as_completed's waiter: installed, and its finished_futures

tvars == <<pvars, word, tpc, retries, result, hist, completed, waiter>>

VARIABLES
  max_workers,   \* the size of the pool
  runs,          \* how many calls of the batch function have begun
  mpc,           \* where the orchestrator is
  nsub,          \* how many tasks the orchestrator has submitted
  finished,      \* as_completed: the futures found finished when it started
  batch,         \* as_completed: the finished futures it is yielding, in order
  pending,       \* as_completed: the futures not yet yielded
  future,        \* the future the loop body is handling (0: none)
  handled        \* history, per task: how the append of its result ended

mvars == <<max_workers, runs, mpc, nsub, finished, batch, pending, future, handled>>

vars == <<avars, tvars, mvars>>

Free == 0
Holder(t) == t + 1

NoObj == Obj("", None)

AppendInit ==
  /\ lock = Free
  /\ apc = [t \in Threads |-> "idle"]
  /\ aobj = [t \in Threads |-> NoObj]
  /\ filesize = [t \in Threads |-> 0]
  /\ fpos = [t \in Threads |-> 0]
  /\ appended = <<>>
  /\ dropped = <<>>
  /\ outcome = [t \in Threads |-> "none"]
  /\ faults = 0
  /\ started = 0

\* --------------------------------------------- append_json_object_to_array
\* The call: append_json_object_to_array(file_path, obj, lock).
AppendCall(t, obj) ==
  /\ apc[t] = "idle"
  /\ apc' = [apc EXCEPT ![t] = "acquire"]
  /\ aobj' = [aobj EXCEPT ![t] = obj]
  /\ started' = started + 1
  /\ UNCHANGED <<file, lock, filesize, fpos, appended, dropped, outcome, faults>>

\* with lock:
Acquire(t) ==
  /\ apc[t] = "acquire"
  /\ lock = Free
  /\ lock' = Holder(t)
  /\ apc' = [apc EXCEPT ![t] = "open"]
  /\ UNCHANGED <<file, aobj, filesize, fpos, appended, dropped, outcome, faults, started>>
  /\ UNCHANGED <<tvars, mvars>>

\* An I/O error raised at the step thread t is at: control goes to the
\* except clause, the file keeps what was written before.
CanFault == faults < MaxFaults

Raise(t) ==
  /\ apc' = [apc EXCEPT ![t] = "except"]
  /\ faults' = faults + 1

\* with open(file_path, 'r+', encoding='utf-8') as f:
Open(t) ==
  /\ apc[t] = "open"
  /\ \/ /\ apc' = [apc EXCEPT ![t] = "size"]
        /\ fpos' = [fpos EXCEPT ![t] = 0]
        /\ UNCHANGED faults
     \/ /\ CanFault
        /\ Raise(t)
        /\ UNCHANGED fpos
  /\ UNCHANGED <<file, lock, aobj, filesize, appended, dropped, outcome, started>>
  /\ UNCHANGED <<tvars, mvars>>

\* f.seek(0, 2); filesize = f.tell()
ReadSize(t) ==
  /\ apc[t] = "size"
  /\ filesize' = [filesize EXCEPT ![t] = Len(file)]
  /\ fpos' = [fpos EXCEPT ![t] = Len(file)]
  /\ apc' = [apc EXCEPT ![t] = "seek"]
  /\ UNCHANGED <<file, lock, aobj, appended, dropped, outcome, faults, started>>
  /\ UNCHANGED <<tvars, mvars>>

\* A variant of SeekTarget that seeks to the end of a non-empty array, not
\* to its closing bracket.
SeekTargetAtEnd(size) == IF size <= 2 THEN 1 ELSE size

\* if filesize <= 2: f.seek(1)  else: f.seek(filesize - 1)
SeekTarget(size) == IF size <= 2 THEN 1 ELSE size - 1

NextAfterSeek(size) == IF size <= 2 THEN "dump" ELSE "sep"

Seek(t) ==
  /\ apc[t] = "seek"
  /\ fpos' = [fpos EXCEPT ![t] = SeekTarget(filesize[t])]
  /\ apc' = [apc EXCEPT ![t] = NextAfterSeek(filesize[t])]
  /\ UNCHANGED <<file, lock, aobj, filesize, appended, dropped, outcome, faults, started>>
  /\ UNCHANGED <<tvars, mvars>>

\* A write of s by thread t, or an I/O error after the first k cells of s
\* reached the file.
WriteOrFault(t, s, next) ==
  \/ /\ file' = WriteAt(file, fpos[t], s)
     /\ fpos' = [fpos EXCEPT ![t] = fpos[t] + Len(s)]
     /\ apc' = [apc EXCEPT ![t] = next]
     /\ UNCHANGED faults
  \/ /\ CanFault
     /\ \E k \in 0..(Len(s) - 1) :
          /\ file' = WriteAt(file, fpos[t], SubSeq(s, 1, k))
          /\ fpos' = [fpos EXCEPT ![t] = fpos[t] + k]
     /\ Raise(t)

\* f.write(',\n')
WriteSeparator(t) ==
  /\ apc[t] = "sep"
  /\ WriteOrFault(t, Separator, "dump")
  /\ UNCHANGED <<lock, aobj, filesize, appended, dropped, outcome, started>>
  /\ UNCHANGED <<tvars, mvars>>

\* json.dump(obj, f, ensure_ascii=False, indent=2)
WriteObj(t) ==
  /\ apc[t] = "dump"
  /\ WriteOrFault(t, Dump(aobj[t]), "bracket")
  /\ UNCHANGED <<lock, aobj, filesize, appended, dropped, outcome, started>>
  /\ UNCHANGED <<tvars, mvars>>

\* f.write(']')
WriteBracket(t) ==
  /\ apc[t] = "bracket"
  /\ WriteOrFault(t, <<RB>>, "close")
  /\ UNCHANGED <<lock, aobj, filesize, appended, dropped, outcome, started>>
  /\ UNCHANGED <<tvars, mvars>>

\* The end of the with open block: the file is closed.
Close(t) ==
  /\ apc[t] = "close"
  /\ apc' = [apc EXCEPT ![t] = "release"]
  /\ appended' = Append(appended, aobj[t])
  /\ outcome' = [outcome EXCEPT ![t] = "ok"]
  /\ UNCHANGED <<file, lock, aobj, filesize, fpos, dropped, faults, started>>
  /\ UNCHANGED <<tvars, mvars>>

\* A variant of Except in which the error leaves the function and ends the
\* orchestrator's run.
ExceptPropagates(t) ==
  /\ apc[t] = "except"
  /\ apc' = [apc EXCEPT ![t] = "release"]
  /\ dropped' = Append(dropped, aobj[t])
  /\ outcome' = [outcome EXCEPT ![t] = "error"]
  /\ mpc' = (IF t = Main THEN "raised" ELSE mpc)
  /\ UNCHANGED <<file, lock, aobj, filesize, fpos, appended, faults, started>>
  /\ UNCHANGED <<max_workers, runs, nsub, finished, batch, pending, future, handled>>
  /\ UNCHANGED tvars

\* except Exception as e: print(...)
Except(t) ==
  /\ apc[t] = "except"
  /\ apc' = [apc EXCEPT ![t] = "release"]
  /\ dropped' = Append(dropped, aobj[t])
  /\ outcome' = [outcome EXCEPT ![t] = "error"]
  /\ UNCHANGED <<file, lock, aobj, filesize, fpos, appended, faults, started>>
  /\ UNCHANGED <<tvars, mvars>>

\* A variant of LockAfterRelease that keeps the lock when the call caught
\* an error.
LockKeptOnError(t) == IF outcome[t] = "error" THEN Holder(t) ELSE Free

\* The end of the with lock block; the call returns.
LockAfterRelease(t) == Free

Release(t) ==
  /\ apc[t] = "release"
  /\ lock' = LockAfterRelease(t)
  /\ apc' = [apc EXCEPT ![t] = "idle"]
  /\ UNCHANGED <<file, aobj, filesize, fpos, appended, dropped, outcome, faults, started>>
  /\ UNCHANGED <<tvars, mvars>>

AppendStep(t) ==
  \/ Acquire(t)
  \/ Open(t)
  \/ ReadSize(t)
  \/ Seek(t)
  \/ WriteSeparator(t)
  \/ WriteObj(t)
  \/ WriteBracket(t)
  \/ Close(t)
  \/ Except(t)
  \/ Release(t)

\* ------------------------------------------------- fetch_bing_dictionary
\* What a call of fetch_bing_dictionary(word) can do, besides returning the
\* record: raise on a failed request (requests.RequestException), on a page
\* without the content area, or on a page without the definitions tab.
ErrorKinds == {"network", "nocontent", "nodefs"}

\* str(e) of each exception, as the pieces the f-string joins.
Message(kind, w) ==
  CASE kind = "network" -> <<"Failed to fetch data for '", w, "': ", "<requests error>">>
    [] kind = "nocontent" -> <<"No dictionary content found for '", w,
                               "'. Possible word not found or page structure changed.">>
    [] kind = "nodefs" -> <<"No '<tab>' definitions found for '", w, "'.">>

\* The pieces of text that hold the substring 'definitions'.
TextsWithDefinitions == {"definitions", "No '<tab>' definitions found for '"}

\* The pieces of text that hold the substring 'not found'.
TextsWithNotFound == {"'. Possible word not found or page structure changed."}

TextIn(msg, texts) == \E i \in 1..Len(msg) : msg[i] \in texts

\* 'definitions' in str(e)
DefinitionsIn(msg) == TextIn(msg, TextsWithDefinitions)

\* The record fetch_bing_dictionary(w) returns.
Record(w) == 1

\* The history of the direct call: the fetcher's calls, those that raised,
\* what the last one did, and the time.sleep durations in order.
NoHist == [calls |-> 0, failed |-> 0, last |-> "none", waits |-> <<>>]

\* One more call of the fetcher, which raised (kind an error kind) or
\* returned the record (kind "ok").
Count(h, kind) ==
  IF kind = "ok" THEN [h EXCEPT !.calls = @ + 1, !.last = kind]
  ELSE [h EXCEPT !.calls = @ + 1, !.failed = @ + 1, !.last = kind]

Slept(h, d) == [h EXCEPT !.waits = Append(@, d)]

Trace(t, h) == IF t = Direct THEN h ELSE hist

TaskInit ==
  /\ word = [t \in Calls |-> ""]
  /\ tpc = [t \in Calls |-> "none"]
  /\ retries = [t \in Calls |-> 0]
  /\ result = [t \in Calls |-> NoObj]
  /\ hist = NoHist
  /\ completed = <<>>
  /\ waiter = [installed |-> FALSE, finished_futures |-> <<>>]

\* ------------------------------------------------------------- fetch_word
\* retries = 0
Enter(t) ==
  /\ tpc' = [tpc EXCEPT ![t] = "loop"]
  /\ retries' = [retries EXCEPT ![t] = 0]

\* while retries < max_retries:
LoopCond(r, m) == r < m

\* An installed waiter is told of the future that is done.
Notify(w, t) ==
  IF w.installed THEN [w EXCEPT !.finished_futures = Append(@, t)] ELSE w

\* return obj: the call's locals are gone, its future holds obj and is done.
Return(t, obj) ==
  /\ tpc' = [tpc EXCEPT ![t] = "done"]
  /\ retries' = [retries EXCEPT ![t] = 0]
  /\ result' = [result EXCEPT ![t] = obj]
  /\ completed' = Append(completed, t)
  /\ waiter' = Notify(waiter, t)

\* A variant of ObjOnSuccess that returns {word: None}.
ObjOnSuccessNone(w) == Obj(w, None)

\* data = fetch_bing_dictionary(word); return {word: data}
ObjOnSuccess(w) == Obj(w, Record(w))

FetchOk(t) ==
  /\ tpc[t] = "loop"
  /\ LoopCond(retries[t], max_retries)
  /\ hist' = Trace(t, Count(hist, "ok"))
  /\ Return(t, ObjOnSuccess(word[t]))
  /\ UNCHANGED <<pvars, word>>
  /\ UNCHANGED <<avars, mvars>>

\* A variant of NotFound that looks for the text 'not found'.
NotFoundOtherText(kind, w) == TextIn(Message(kind, w), TextsWithNotFound)

NotFound(kind, w) == DefinitionsIn(Message(kind, w))

\* except Exception as e: if 'definitions' in str(e): return {word: None}
\* else: retries += 1, and on to time.sleep
FetchRaises(t) ==
  /\ tpc[t] = "loop"
  /\ LoopCond(retries[t], max_retries)
  /\ \E kind \in ErrorKinds :
       /\ hist' = Trace(t, Count(hist, kind))
       /\ IF NotFound(kind, word[t])
          THEN Return(t, Obj(word[t], None))
          ELSE /\ retries' = [retries EXCEPT ![t] = @ + 1]
               /\ tpc' = [tpc EXCEPT ![t] = "sleep"]
               /\ UNCHANGED <<result, completed, waiter>>
  /\ UNCHANGED <<pvars, word>>
  /\ UNCHANGED <<avars, mvars>>

\* initial_delay * (2 ** (retries - 1))
RECURSIVE Pow2(_)
Pow2(n) == IF n <= 0 THEN 1 ELSE 2 * Pow2(n - 1)

Delay(d, r) == d * Pow2(r - 1)

\* time.sleep(...), then back to the loop test
Sleep(t) ==
  /\ tpc[t] = "sleep"
  /\ hist' = Trace(t, Slept(hist, Delay(initial_delay, retries[t])))
  /\ tpc' = [tpc EXCEPT ![t] = "loop"]
  /\ UNCHANGED <<pvars, word, retries, result, completed, waiter>>
  /\ UNCHANGED <<avars, mvars>>

\* The loop ends: return {word: None}
Exhausted(t) ==
  /\ tpc[t] = "loop"
  /\ ~LoopCond(retries[t], max_retries)
  /\ Return(t, Obj(word[t], None))
  /\ UNCHANGED <<pvars, word, hist>>
  /\ UNCHANGED <<avars, mvars>>

FetchStep(t) ==
  \/ FetchOk(t)
  \/ FetchRaises(t)
  \/ Sleep(t)
  \/ Exhausted(t)

\* ------------------------------------- batch_fetch_dictionary_multithread
\* A variant of InitFile that opens the file without truncating it and
\* writes at its end.
InitFileKeepsContent ==
  /\ mpc = "init"
  /\ file' = (IF file = Absent THEN EmptyArray ELSE file \o EmptyArray)
  /\ mpc' = "submit"
  /\ UNCHANGED <<lock, apc, aobj, filesize, fpos, appended, dropped, outcome, faults, started>>
  /\ UNCHANGED <<max_workers, runs, nsub, finished, batch, pending, future, handled>>
  /\ UNCHANGED tvars

\* with open(output_json_path, 'w', encoding='utf-8') as f: f.write('[]')
\* and lock = threading.Lock(); or an I/O error, which leaves the function:
\* at the open (the file is as it was) or at the write (the file is cut).
InitFile ==
  /\ mpc = "init"
  /\ \/ /\ file' = EmptyArray
        /\ mpc' = "submit"
        /\ UNCHANGED faults
     \/ /\ CanFault
        /\ file' \in {file, <<>>, <<LB>>}
        /\ faults' = faults + 1
        /\ mpc' = "raised"
  /\ UNCHANGED <<lock, apc, aobj, filesize, fpos, appended, dropped, outcome, started>>
  /\ UNCHANGED <<max_workers, runs, nsub, finished, batch, pending, future, handled>>
  /\ UNCHANGED tvars

\* executor.submit(fetch_word, word), for the next word of words
Submit ==
  /\ mpc = "submit"
  /\ nsub < Len(words)
  /\ nsub' = nsub + 1
  /\ tpc' = [tpc EXCEPT ![nsub + 1] = "queued"]
  /\ word' = [word EXCEPT ![nsub + 1] = words[nsub + 1]]
  /\ UNCHANGED <<pvars, retries, result, hist, completed, waiter>>
  /\ UNCHANGED <<max_workers, runs, mpc, finished, batch, pending, future, handled>>
  /\ UNCHANGED avars

\* A pool thread takes the oldest queued task and enters fetch_word; the
\* pool runs at most max_workers tasks at a time.
Running == {t \in Tasks : tpc[t] \in {"loop", "sleep"}}

PoolHasRoom == Cardinality(Running) < max_workers

\* A variant of WorkerStart in which a sleeping worker holds up the pool.
WorkerStartNoSleepers(t) ==
  /\ tpc[t] = "queued"
  /\ \A u \in Tasks : u < t => tpc[u] # "queued"
  /\ \A u \in Tasks : tpc[u] # "sleep"
  /\ PoolHasRoom
  /\ Enter(t)
  /\ UNCHANGED <<pvars, word, result, hist, completed, waiter>>
  /\ UNCHANGED <<avars, mvars>>

WorkerStart(t) ==
  /\ tpc[t] = "queued"
  /\ \A u \in Tasks : u < t => tpc[u] # "queued"
  /\ PoolHasRoom
  /\ Enter(t)
  /\ UNCHANGED <<pvars, word, result, hist, completed, waiter>>
  /\ UNCHANGED <<avars, mvars>>

\* for future in as_completed(future_to_word): the generator starts with the
\* futures already done, in no order, and installs its waiter.
Done == {t \in Tasks : tpc[t] = "done"}

Submitted == 1..nsub

\* A variant of AsCompletedStart that does not wait for the last submission.
AsCompletedStartEarly ==
  /\ mpc = "submit"
  /\ finished' = Done
  /\ pending' = Submitted \ Done
  /\ waiter' = [installed |-> TRUE, finished_futures |-> <<>>]
  /\ mpc' = "yield"
  /\ UNCHANGED <<pvars, word, tpc, retries, result, hist, completed>>
  /\ UNCHANGED <<max_workers, runs, nsub, batch, future, handled>>
  /\ UNCHANGED avars

\* A variant of AsCompletedStart that yields only the futures still pending.
AsCompletedStartPendingOnly ==
  /\ mpc = "submit"
  /\ nsub = Len(words)
  /\ finished' = {}
  /\ pending' = Submitted \ Done
  /\ waiter' = [installed |-> TRUE, finished_futures |-> <<>>]
  /\ mpc' = "yield"
  /\ UNCHANGED <<pvars, word, tpc, retries, result, hist, completed>>
  /\ UNCHANGED <<max_workers, runs, nsub, batch, future, handled>>
  /\ UNCHANGED avars

AsCompletedStart ==
  /\ mpc = "submit"
  /\ nsub = Len(words)
  /\ finished' = Done
  /\ pending' = Submitted \ Done
  /\ waiter' = [installed |-> TRUE, finished_futures |-> <<>>]
  /\ mpc' = "yield"
  /\ UNCHANGED <<pvars, word, tpc, retries, result, hist, completed>>
  /\ UNCHANGED <<max_workers, runs, nsub, batch, future, handled>>
  /\ UNCHANGED avars

YieldFinished ==
  /\ mpc = "yield"
  /\ \E t \in finished :
       /\ future' = t
       /\ finished' = finished \ {t}
  /\ mpc' = "body"
  /\ UNCHANGED <<max_workers, runs, nsub, batch, pending, handled>>
  /\ UNCHANGED <<avars, tvars>>

\* waiter.event.wait(): the futures that completed since are taken, and
\* yielded in the order they completed.
WaitEvent ==
  /\ mpc = "yield"
  /\ finished = {}
  /\ batch = <<>>
  /\ pending # {}
  /\ waiter.finished_futures # <<>>
  /\ batch' = waiter.finished_futures
  /\ waiter' = [waiter EXCEPT !.finished_futures = <<>>]
  /\ UNCHANGED <<pvars, word, tpc, retries, result, hist, completed>>
  /\ UNCHANGED <<max_workers, runs, mpc, nsub, finished, pending, future, handled>>
  /\ UNCHANGED avars

\* A variant of YieldBatch that yields the newest of the batch first.
YieldBatchNewestFirst ==
  /\ mpc = "yield"
  /\ finished = {}
  /\ batch # <<>>
  /\ future' = batch[Len(batch)]
  /\ batch' = SubSeq(batch, 1, Len(batch) - 1)
  /\ pending' = pending \ {batch[Len(batch)]}
  /\ mpc' = "body"
  /\ UNCHANGED <<max_workers, runs, nsub, finished, handled>>
  /\ UNCHANGED <<avars, tvars>>

\* The futures of the batch are yielded oldest first.
YieldBatch ==
  /\ mpc = "yield"
  /\ finished = {}
  /\ batch # <<>>
  /\ future' = Head(batch)
  /\ batch' = Tail(batch)
  /\ pending' = pending \ {Head(batch)}
  /\ mpc' = "body"
  /\ UNCHANGED <<max_workers, runs, nsub, finished, handled>>
  /\ UNCHANGED <<avars, tvars>>

\* A variant of Body that appends only the results that hold a record.
BodySkipsFailures ==
  /\ mpc = "body"
  /\ IF result[future].data = None
     THEN /\ mpc' = "yield"
          /\ UNCHANGED avars
     ELSE /\ AppendCall(Main, result[future])
          /\ mpc' = "appending"
  /\ UNCHANGED <<max_workers, runs, nsub, finished, batch, pending, future, handled>>
  /\ UNCHANGED tvars

\* result = future.result(); append_json_object_to_array(output_json_path, result, lock)
Body ==
  /\ mpc = "body"
  /\ AppendCall(Main, result[future])
  /\ mpc' = "appending"
  /\ UNCHANGED <<max_workers, runs, nsub, finished, batch, pending, future, handled>>
  /\ UNCHANGED tvars

\* The call returned: print(...), and on to the next future.
AfterAppend ==
  /\ mpc = "appending"
  /\ apc[Main] = "idle"
  /\ handled' = [handled EXCEPT ![future] = outcome[Main]]
  /\ future' = 0
  /\ mpc' = "yield"
  /\ UNCHANGED <<max_workers, runs, nsub, finished, batch, pending>>
  /\ UNCHANGED <<avars, tvars>>

\* A variant of LoopEnd that ends the loop when no finished future is at
\* hand, pending ones or not.
LoopEndEarly ==
  /\ mpc = "yield"
  /\ finished = {}
  /\ batch = <<>>
  /\ mpc' = "shutdown"
  /\ UNCHANGED <<max_workers, runs, nsub, finished, batch, pending, future, handled>>
  /\ UNCHANGED <<avars, tvars>>

\* The generator is exhausted; the with ThreadPoolExecutor block ends with
\* shutdown(wait=True), which joins the pool threads; then the last print.
LoopEnd ==
  /\ mpc = "yield"
  /\ finished = {}
  /\ batch = <<>>
  /\ pending = {}
  /\ mpc' = "shutdown"
  /\ UNCHANGED <<max_workers, runs, nsub, finished, batch, pending, future, handled>>
  /\ UNCHANGED <<avars, tvars>>

PoolIdle == \A t \in Tasks : tpc[t] \in {"none", "done"}

Shutdown ==
  /\ mpc = "shutdown"
  /\ PoolIdle
  /\ mpc' = "returned"
  /\ UNCHANGED <<max_workers, runs, nsub, finished, batch, pending, future, handled>>
  /\ UNCHANGED <<avars, tvars>>

MainStep ==
  \/ InitFile
  \/ Submit
  \/ AsCompletedStart
  \/ YieldFinished
  \/ WaitEvent
  \/ YieldBatch
  \/ Body
  \/ AppendStep(Main)
  \/ AfterAppend
  \/ LoopEnd
  \/ Shutdown

\* What output_json_path holds before the run: it does not exist, it is
\* empty, or it holds the array of an earlier run.
InitialFiles == {Absent, <<>>, <<LB>> \o Dump(Obj("king", None)) \o <<RB>>}

RECURSIVE SeqsUpTo(_, _)
SeqsUpTo(S, n) ==
  IF n = 0 THEN {<<>>}
  ELSE LET shorter == SeqsUpTo(S, n - 1)
       IN shorter \cup {Append(q, x) : q \in shorter, x \in S}

Init ==
  /\ file \in InitialFiles
  /\ AppendInit
  /\ max_retries = DefaultMaxRetries
  /\ initial_delay = DefaultInitialDelay
  /\ lines = <<>>
  /\ nread = 0
  /\ words \in SeqsUpTo(Words, MaxWords)
  /\ TaskInit
  /\ max_workers \in 1..MaxWorkers
  /\ runs = 1
  /\ mpc = "init"
  /\ nsub = 0
  /\ finished = {}
  /\ batch = <<>>
  /\ pending = {}
  /\ future = 0
  /\ handled = [t \in Tasks |-> "none"]

Next ==
  \/ MainStep
  \/ \E t \in Tasks : WorkerStart(t) \/ FetchStep(t)

Spec == Init /\ [][Next]_vars

\* The threads are scheduled fairly: the orchestrator and every pool thread
\* take their next step when they can, and every call of the fetcher
\* returns or raises.
Fairness ==
  /\ WF_vars(MainStep)
  /\ \A t \in Tasks : WF_vars(WorkerStart(t)) /\ WF_vars(FetchStep(t))

SpecFair == Init /\ [][Next]_vars /\ Fairness

\* ------------------------------------------------ the writer on its own
\* NThreads threads append to one initialized file with one lock.
IdleTasks ==
  /\ max_retries = DefaultMaxRetries
  /\ initial_delay = DefaultInitialDelay
  /\ lines = <<>>
  /\ nread = 0
  /\ words = <<>>
  /\ TaskInit

IdleMain ==
  /\ max_workers = 1
  /\ runs = 0
  /\ mpc = "none"
  /\ nsub = 0
  /\ finished = {}
  /\ batch = <<>>
  /\ pending = {}
  /\ future = 0
  /\ handled = [t \in Tasks |-> "none"]

InitAppend ==
  /\ file = EmptyArray
  /\ AppendInit
  /\ IdleTasks
  /\ IdleMain

ThreadAppends(t) ==
  /\ started < MaxAppends
  /\ \E obj \in AppendObjs : AppendCall(t, obj)
  /\ UNCHANGED <<tvars, mvars>>

NextAppend ==
  \E t \in Appenders : ThreadAppends(t) \/ AppendStep(t)

SpecAppend == InitAppend /\ [][NextAppend]_vars

\* ---------------------------------------------- fetch_word on its own
\* One call fetch_word(word, max_retries, initial_delay).
InitFetch ==
  /\ max_retries \in 0..MaxRetriesArg
  /\ initial_delay \in 1..MaxDelayArg
  /\ lines = <<>>
  /\ nread = 0
  /\ words = <<>>
  /\ \E w \in Words : word = [t \in Calls |-> IF t = Direct THEN w ELSE ""]
  /\ tpc = [t \in Calls |-> IF t = Direct THEN "loop" ELSE "none"]
  /\ retries = [t \in Calls |-> 0]
  /\ result = [t \in Calls |-> NoObj]
  /\ hist = NoHist
  /\ completed = <<>>
  /\ waiter = [installed |-> FALSE, finished_futures |-> <<>>]
  /\ file = EmptyArray
  /\ AppendInit
  /\ IdleMain

NextFetch == FetchStep(Direct)

SpecFetch == InitFetch /\ [][NextFetch]_vars

\* ------------------------------------- initialization and the writer
\* The batch function is called up to MaxRuns times on one path; the fetch
\* tasks are left out, the orchestrator appends results after each
\* initialization.
InitRuns ==
  /\ file \in InitialFiles
  /\ AppendInit
  /\ IdleTasks
  /\ max_workers = 1
  /\ runs = 1
  /\ mpc = "init"
  /\ nsub = 0
  /\ finished = {}
  /\ batch = <<>>
  /\ pending = {}
  /\ future = 0
  /\ handled = [t \in Tasks |-> "none"]

\* append_json_object_to_array(output_json_path, result, lock) by the
\* orchestrator, once the file is initialized.
MainAppends ==
  /\ mpc = "submit"
  /\ started < MaxAppends
  /\ \E obj \in AppendObjs : AppendCall(Main, obj)
  /\ UNCHANGED <<tvars, mvars>>

\* The function is called again on the same output_json_path, after it
\* returned or raised; the histories of appends start again.
CallAgain ==
  /\ mpc \in {"submit", "raised"}
  /\ apc[Main] = "idle"
  /\ runs < MaxRuns
  /\ runs' = runs + 1
  /\ mpc' = "init"
  /\ appended' = <<>>
  /\ dropped' = <<>>
  /\ UNCHANGED <<file, lock, apc, aobj, filesize, fpos, outcome, faults, started>>
  /\ UNCHANGED <<max_workers, nsub, finished, batch, pending, future, handled>>
  /\ UNCHANGED tvars

NextRuns ==
  \/ InitFile
  \/ MainAppends
  \/ AppendStep(Main)
  \/ CallAgain

SpecRuns == InitRuns /\ [][NextRuns]_vars

\* ------------------------------------------------- read_words_from_txt
\* The lines an input file is made of, as sequences of characters: an
\* English letter (k), a digit, a hyphen, a letter that is not an English
\* one, and white space, in the places that matter.
InputLines ==
  { <<>>, <<" ">>,
    <<"k">>, <<"k", "k">>,
    <<" ", "k">>, <<"k", " ">>, <<" ", "k", " ">>, <<"k", " ", "k">>,
    <<"7", "k">>, <<"k", "7">>, <<"k", "-", "k">>,
    <<"é">>, <<"k", "é">> }

IsSpace(c) == c = " "

\* [a-zA-Z]
InClass(c) == c = "k"

\* line.strip()
RECURSIVE LStrip(_)
LStrip(l) ==
  IF l # <<>> /\ IsSpace(Head(l)) THEN LStrip(Tail(l)) ELSE l

RECURSIVE RStrip(_)
RStrip(l) ==
  IF l # <<>> /\ IsSpace(l[Len(l)]) THEN RStrip(SubSeq(l, 1, Len(l) - 1)) ELSE l

Strip(l) == RStrip(LStrip(l))

\* A variant of FullMatch that matches at the start of the word only, as
\* re.match does.
MatchAtStart(w) == w # <<>> /\ InClass(w[1])

\* re.fullmatch(r'[a-zA-Z]+', word)
FullMatch(w) == w # <<>> /\ \A i \in 1..Len(w) : InClass(w[i])

\* for line in f: word = line.strip(); if re.fullmatch(...): words.append(word)
ReadLine ==
  /\ nread < Len(lines)
  /\ nread' = nread + 1
  /\ words' = (LET w == Strip(lines[nread + 1])
               IN IF FullMatch(w) THEN Append(words, w) ELSE words)
  /\ UNCHANGED <<max_retries, initial_delay, lines>>
  /\ UNCHANGED <<word, tpc, retries, result, hist, completed, waiter>>
  /\ UNCHANGED <<avars, mvars>>

InitRead ==
  /\ lines \in SeqsUpTo(InputLines, MaxLines)
  /\ nread = 0
  /\ words = <<>>
  /\ max_retries = DefaultMaxRetries
  /\ initial_delay = DefaultInitialDelay
  /\ TaskInit
  /\ file = EmptyArray
  /\ AppendInit
  /\ IdleMain

NextRead == ReadLine

SpecRead == InitRead /\ [][NextRead]_vars

\* ================================================================ claims
\* ------------------------------------------------------------------ writer
InCriticalSection(t) ==
  apc[t] \in {"open", "size", "seek", "sep", "dump", "bracket", "close", "except", "release"}

\* The steps of two appends never interleave: at most one thread is between
\* its acquire and its release, and it is the lock's holder.
NoInterleaving ==
  \A t1, t2 \in Threads :
    /\ (InCriticalSection(t1) /\ InCriticalSection(t2)) => t1 = t2
    /\ InCriticalSection(t1) => lock = Holder(t1)

Parsed == ParseArray(file)

\* C1: starting from an initialized file, whenever no append is in progress
\* and every append call so far returned without error, the file parses as a
\* JSON array whose elements are exactly the appended objs, in call order.
C1_SuccessfulAppendsParse ==
  (lock = Free /\ dropped = <<>>) =>
    /\ Parsed.ok
    /\ Len(Parsed.elems) = Len(appended)
    /\ Parsed.elems = appended

\* Three appends returned without error and the file holds the three objs.
C1_Witness ==
  /\ lock = Free
  /\ dropped = <<>>
  /\ Len(appended) = 3
  /\ Parsed.elems = appended

\* C2: the steps of one append never interleave with those of another, and
\* whenever the lock is free the file parses as a JSON array.
C2_SerializedAndParses ==
  /\ NoInterleaving
  /\ lock = Free => Parsed.ok

\* C3: after an append failed with an error, the file (once the lock is
\* free) still parses as a JSON array holding exactly the objs appended
\* without error, in order; this stays so for the appends that follow.
C3_FailedAppendKeepsArray ==
  (lock = Free /\ dropped # <<>>) =>
    /\ Parsed.ok
    /\ Parsed.elems = appended

\* ------------------------------------------------------------------ batch
TasksOfRun == 1..Len(words)

RECURSIVE CountWord(_, _)
CountWord(ws, w) ==
  IF ws = <<>> THEN 0
  ELSE (IF Head(ws) = w THEN 1 ELSE 0) + CountWord(Tail(ws), w)

Keys(elems) == [i \in 1..Len(elems) |-> elems[i].word]

\* The cells of obj stand in the file, one after the other.
Written(obj) ==
  \E i \in 1..Len(file) :
    /\ i + Len(Dump(obj)) - 1 <= Len(file)
    /\ SubSeq(file, i, i + Len(Dump(obj)) - 1) = Dump(obj)

\* C4: when the batch has returned and no append failed, the output array
\* has one element per word of the run, duplicates counted: the keys are
\* the words as a multiset, and each value is the word's record or None.
C4_OneElementPerWord ==
  (mpc = "returned" /\ dropped = <<>>) =>
    /\ Parsed.ok
    /\ Len(Parsed.elems) = Len(words)
    /\ \A w \in Words : CountWord(Keys(Parsed.elems), w) = CountWord(words, w)
    /\ \A i \in 1..Len(Parsed.elems) :
         Parsed.elems[i].data \in {None, Record(Parsed.elems[i].word)}

\* The batch returned for a run of the same word twice, and the array holds
\* it twice.
C4_Witness ==
  /\ mpc = "returned"
  /\ dropped = <<>>
  /\ Len(words) = 2
  /\ words[1] = words[2]
  /\ Len(Parsed.elems) = 2

\* C5 as stated: a failed fetch does not abort the batch; when the batch
\* has returned every word was fetched and appended, and each word whose
\* fetch failed stands in the output as {word: None}.
C5_FailedFetchWritten ==
  /\ mpc = "raised" => nsub = 0
  /\ mpc = "returned" =>
       \A t \in TasksOfRun :
         /\ tpc[t] = "done"
         /\ handled[t] = "ok"
         /\ result[t].data = None => Written(Obj(words[t], None))

\* C5 as amended: a failed fetch does not abort the batch; when the batch
\* has returned every word was fetched and its result handed to an append,
\* and each word whose fetch failed stands in the output as {word: None}
\* unless its own append failed.
C5_FailedFetchWrittenUnlessDropped ==
  /\ mpc = "raised" => nsub = 0
  /\ mpc = "returned" =>
       \A t \in TasksOfRun :
         /\ tpc[t] = "done"
         /\ handled[t] \in {"ok", "error"}
         /\ (handled[t] = "ok" /\ result[t].data = None)
              => Written(Obj(words[t], None))

\* The batch returned with one word failed and written as None and the
\* other fetched and written.
C5_Witness ==
  /\ mpc = "returned"
  /\ Len(words) = 2
  /\ \E t1, t2 \in TasksOfRun :
       /\ result[t1].data = None
       /\ handled[t1] = "ok"
       /\ Written(Obj(words[t1], None))
       /\ result[t2].data # None
       /\ handled[t2] = "ok"

\* C6: the batch returns only when every task has been submitted and is
\* done (none queued, running or sleeping) and its result has been through
\* an append that wrote it or dropped it; no append is then in progress.
C6_ReturnsAfterAll ==
  mpc = "returned" =>
    /\ nsub = Len(words)
    /\ \A t \in TasksOfRun :
         /\ tpc[t] = "done"
         /\ handled[t] \in {"ok", "error"}
    /\ Len(appended) + Len(dropped) = Len(words)
    /\ apc[Main] = "idle"
    /\ lock = Free
    /\ future = 0

\* The batch returned with one result written and one dropped.
C6_Witness ==
  /\ mpc = "returned"
  /\ \E t1, t2 \in TasksOfRun : handled[t1] = "ok" /\ handled[t2] = "error"

\* ------------------------------------------------------------- fetch_word
\* C7: when every call of the fetcher raised a transient error (none
\* returned, none signalled not found), fetch_word has called the fetcher
\* exactly max_retries times when it returns, and returns {word: None}.
C7_ExhaustsMaxRetries ==
  (tpc[Direct] = "done" /\ hist.failed = hist.calls /\ hist.last # "nodefs") =>
    /\ hist.calls = max_retries
    /\ result[Direct] = Obj(word[Direct], None)

\* C8: once the fetcher has signalled 'definitions not found', on the first
\* attempt or a later one, fetch_word has returned {word: None}: that call
\* was the last one, and the only waits are those after the failed attempts
\* before it.
C8_NotFoundReturnsAtOnce ==
  hist.last = "nodefs" =>
    /\ tpc[Direct] = "done"
    /\ result[Direct] = Obj(word[Direct], None)
    /\ hist.failed = hist.calls
    /\ Len(hist.waits) = hist.calls - 1

\* Not found was signalled on a second or later attempt.
C8_Witness ==
  /\ hist.last = "nodefs"
  /\ hist.calls >= 2
  /\ tpc[Direct] = "done"

\* C9: after a failed request (a network error or a timeout) fetch_word
\* counts a retry and waits, whatever the word: it is in its backoff or
\* back at the loop, and returns only with max_retries failures counted.
C9_NetworkErrorRetried ==
  hist.last = "network" =>
    /\ tpc[Direct] \in {"sleep", "loop", "done"}
    /\ tpc[Direct] # "done" => retries[Direct] = hist.failed
    /\ tpc[Direct] = "done" => hist.failed = max_retries

\* C10: when the fetcher returned the record after k transient failures,
\* k < max_retries, fetch_word has returned {word: record} after exactly
\* k + 1 calls and k waits: no call and no wait follows the successful one.
C10_SuccessAfterFailures ==
  hist.last = "ok" =>
    /\ tpc[Direct] = "done"
    /\ result[Direct] = Obj(word[Direct], Record(word[Direct]))
    /\ hist.calls = hist.failed + 1
    /\ hist.failed < max_retries
    /\ Len(hist.waits) = hist.failed

\* The fetcher returned the record on a second or later attempt.
C10_Witness ==
  /\ hist.last = "ok"
  /\ hist.failed >= 1
  /\ tpc[Direct] = "done"

\* The k-th time.sleep of the direct call lasted initial_delay * 2^(k-1).
BackoffDurations ==
  \A k \in 1..Len(hist.waits) : hist.waits[k] = initial_delay * 2^(k - 1)

\* C11: the wait after the k-th failed attempt lasts initial_delay * 2^(k-1),
\* and the waits stand between the attempts: a fetch_word call that has
\* returned after n attempts has waited n - 1 times, no wait following the
\* last attempt.
C11_WaitsBetweenAttempts ==
  /\ BackoffDurations
  /\ (tpc[Direct] = "done" /\ hist.calls >= 1) =>
       Len(hist.waits) = hist.calls - 1

\* ------------------------------------------------------- initialization
\* C12: after the initialization the file holds exactly [] whatever it held
\* before (nothing, an empty file, the array of an earlier run, or what an
\* earlier call of the function left), a second initialization included;
\* and the appends that follow an initialization give an array of the
\* entries appended since, none of the earlier ones.
C12_InitResets ==
  /\ (mpc = "submit" /\ apc[Main] = "idle" /\ appended = <<>> /\ dropped = <<>>)
       => file = EmptyArray
  /\ (mpc = "submit" /\ apc[Main] = "idle" /\ dropped = <<>>)
       => (Parsed.ok /\ Parsed.elems = appended)

\* A second call initialized the file after the first one had appended
\* entries without error, and one entry has been appended since.
C12_Witness ==
  /\ runs = 2
  /\ mpc = "submit"
  /\ apc[Main] = "idle"
  /\ faults = 0
  /\ started >= 2
  /\ Len(appended) = 1
  /\ Parsed.elems = appended

\* ----------------------------------------------------------------- pool
Sleeping == {t \in Tasks : tpc[t] = "sleep"}

Queued == {t \in Tasks : tpc[t] = "queued"}

\* The other running workers can go on with their fetch, and the
\* orchestrator with the append it is in or about to make.
OthersCanStep ==
  /\ lock \in {Free, Holder(Main)}
  /\ \A u \in Tasks : tpc[u] = "loop" => ENABLED FetchStep(u)
  /\ mpc = "body" => ENABLED Body
  /\ apc[Main] # "idle" => ENABLED AppendStep(Main)

\* C13 as stated: while a worker sleeps in its backoff, the other workers
\* can go on, the orchestrator can append, and a queued word can be started:
\* only the sleeping worker's own word waits.
C13_SleepDelaysOwnWordOnly ==
  Sleeping # {} =>
    /\ OthersCanStep
    /\ Queued # {} => \E u \in Queued : ENABLED WorkerStart(u)

\* C13 as amended: while a worker sleeps in its backoff it holds no lock,
\* the other running workers can go on, the orchestrator can append, and the
\* oldest queued word can be started whenever fewer than max_workers tasks
\* are running or sleeping: a sleeping worker keeps its pool thread.
C13_SleepKeepsOnlyItsThread ==
  Sleeping # {} =>
    /\ OthersCanStep
    /\ (Queued # {} /\ Cardinality(Running) < max_workers)
         => \E u \in Queued : ENABLED WorkerStart(u)

\* One worker sleeps, a word is queued and a pool thread is free.
C13_Witness ==
  /\ Sleeping # {}
  /\ Queued # {}
  /\ Cardinality(Running) < max_workers

\* ------------------------------------------------------ reading the words
\* A letter of any alphabet, as str.isalpha has it.
IsLetter(c) == c \in {"k", "é"}

IsEnglishLetter(c) == c = "k"

\* The line without the white space around it.
Token(l) ==
  LET inked == {i \in 1..Len(l) : l[i] # " "}
  IN IF inked = {} THEN <<>>
     ELSE SubSeq(l, CHOOSE i \in inked : \A j \in inked : i <= j,
                    CHOOSE i \in inked : \A j \in inked : i >= j)

OnlyLetters(l) == Token(l) # <<>> /\ \A i \in 1..Len(Token(l)) : IsLetter(Token(l)[i])

OnlyEnglishLetters(l) ==
  Token(l) # <<>> /\ \A i \in 1..Len(Token(l)) : IsEnglishLetter(Token(l)[i])

Tokens(ls) == [i \in 1..Len(ls) |-> Token(ls[i])]

LinesRead == SubSeq(lines, 1, nread)

\* C14 as stated: the words read so far are, in input order, the tokens of
\* the lines read that are made only of letters; an empty line, a token that
\* starts with a digit or holds a character that is no letter is left out.
C14_KeepsLetterWords ==
  words = Tokens(SelectSeq(LinesRead, OnlyLetters))

\* C14 as amended: the words read so far are, in input order, the tokens
\* (the lines without the white space around them) of the lines read that
\* are made only of the English letters a-z and A-Z; every other line is
\* left out, a word with a letter of another alphabet included.
C14_KeepsEnglishLetterWords ==
  words = Tokens(SelectSeq(LinesRead, OnlyEnglishLetters))

\* Two lines were read: one was kept without the white space around it, the
\* other, which holds a character outside a-z and A-Z, was left out.
C14_Witness ==
  /\ nread = 2
  /\ Len(words) = 1
  /\ \E i \in 1..2 : lines[i] # words[1] /\ Token(lines[i]) = words[1]
  /\ \E i \in 1..2 : Token(lines[i]) # <<>> /\ ~OnlyEnglishLetters(lines[i])

\* ------------------------------------------------- initialization first
NothingStarted ==
  /\ nsub = 0
  /\ started = 0
  /\ \A t \in Tasks : tpc[t] = "none"
  /\ appended = <<>>
  /\ dropped = <<>>

InitBeforeAll ==
  /\ mpc \in {"init", "raised"} => NothingStarted
  /\ mpc = "submit" => (file = EmptyArray /\ started = 0)
  /\ mpc = "returned" =>
       \A t \in TasksOfRun : tpc[t] = "done" /\ handled[t] \in {"ok", "error"}

\* C15: the file is initialized to [] before any task is submitted and any
\* append is made; when the initialization fails the batch ends with no
\* fetch and no append; once it has succeeded nothing ends the batch but
\* its return, which comes after every word has been fetched and handed to
\* an append.
C15_InitFirstAndOnlyAbort ==
  /\ []InitBeforeAll
  /\ [][mpc' = "raised" => mpc = "init"]_vars

\* The batch returned although a fetch had failed and an append had raised.
C15_Witness ==
  /\ mpc = "returned"
  /\ \E t \in TasksOfRun : result[t].data = None
  /\ \E t \in TasksOfRun : handled[t] = "error"

\* ---------------------------------------------------------------- order
\* Where the entry with key w stands among the entries appended.
PosOfKey(w) == CHOOSE i \in 1..Len(appended) : appended[i].word = w

HasEntry(t) == handled[t] = "ok"

\* C16 as stated: the entries stand in the file in the order in which their
\* tasks completed (for the words of a run without duplicates, whose
\* entries are told apart by their keys).
C16_FileInCompletionOrder ==
  \A i, j \in 1..Len(completed) :
    (/\ i < j
     /\ \A t, u \in TasksOfRun : t # u => words[t] # words[u]
     /\ HasEntry(completed[i])
     /\ HasEntry(completed[j]))
      => PosOfKey(words[completed[i]]) < PosOfKey(words[completed[j]])

\* C16 as amended: a future that completes once as_completed is waiting is
\* handed to the loop only when the append of every task that completed
\* before it is over, so its entry stands after theirs; the futures that
\* were done when as_completed started come first, in no particular order.
C16_LateCompletionsInOrder ==
  [][(mpc = "yield" /\ mpc' = "body" /\ finished = {})
       => \A i, j \in 1..Len(completed) :
            (i < j /\ completed[j] = future')
              => handled[completed[i]] \in {"ok", "error"}]_vars

\* Two tasks completed while as_completed was waiting, the second word
\* first: its future is in the loop body, the other is still to be yielded.
C16_Witness ==
  /\ completed = <<2, 1>>
  /\ mpc = "body"
  /\ future = 2
  /\ batch = <<1>>

\* ---------------------------------------------------------- termination
\* C17: with fair scheduling and a fetcher whose calls end, the batch
\* comes to its end; once the file is initialized it returns; and the lock,
\* once taken by an append, is released, the append having succeeded or not.
C17_EventuallyReturns ==
  /\ <>(mpc \in {"returned", "raised"})
  /\ (mpc = "submit") ~> (mpc = "returned")
  /\ (lock # Free) ~> (lock = Free)

\* The batch returned with the lock free after one append that succeeded
\* and one that failed.
C17_Witness ==
  /\ mpc = "returned"
  /\ lock = Free
  /\ Len(appended) = 1
  /\ Len(dropped) = 1

\* ------------------------------------------------------- who appends
Appending == {t \in Threads : apc[t] # "idle"}

\* C18: in a batch run only the orchestrator appends: no other thread is
\* ever in append_json_object_to_array, so at most one append is in
\* progress, the lock is free whenever the orchestrator asks for it, and
\* an append starts only after every word has been submitted.
C18_OnlyOrchestratorAppends ==
  /\ Appending \subseteq {Main}
  /\ lock \in {Free, Holder(Main)}
  /\ apc[Main] = "acquire" => lock = Free
  /\ (started > 0 \/ Appending # {}) =>
       (nsub = Len(words) /\ mpc \notin {"init", "submit", "raised"})

\* The orchestrator asks for the lock while a pool worker is in a fetch.
C18_Witness ==
  /\ apc[Main] = "acquire"
  /\ lock = Free
  /\ \E t \in TasksOfRun : tpc[t] \in {"loop", "sleep"}

\* ------------------------------------------------------- the size test
\* The test filesize <= 2 says "no entry" exactly when none was appended,
\* and the file starts with [ and ends with ], nothing after it.
SizeTestAgrees ==
  /\ (Len(file) <= 2) <=> (appended = <<>>)
  /\ file # <<>>
  /\ file[1] = LB
  /\ file[Len(file)] = RB
  /\ Len(file) >= Len(EmptyArray) + Len(appended)

\* C19: whenever no append is in progress, after any append calls on an
\* initialized file, the size test agrees with the content of the array.
C19_SizeTestAgreesAfterAppends ==
  lock = Free => SizeTestAgrees

====
